---- MODULE Spec2Model ----
(***************************************************************************)
(* A model of the Hugging Face dataset crawler (src/Huggingface_crawler.py) *)
(*                                                                         *)
(* Texts are sequences of one-character strings; a Python dict is a        *)
(* function whose DOMAIN is the set of its keys (an ordered dict is a      *)
(* sequence of key/value records).  Each part of the crawler has its own   *)
(* specification over its own variables:                                   *)
(*   Spec         crawl_dataset_info / _get_all_link_data                  *)
(*   SpecLinks    crawl_dataset_links                                      *)
(*   SpecTags     the tag loop of _extract_related_data                    *)
(*   SpecItems    _extract_models_or_collections_items                     *)
(*   SpecBuckets  _crawl_related_models_or_collections                     *)
(***************************************************************************)
EXTENDS Naturals, Sequences, FiniteSets, TLC

VARIABLES
    \* ---- the tag loop of _extract_related_data (lines 264-275)
    tag_n,                  \* number of tag divs processed so far
    dataset_tags_info_map,  \* dict key -> value
    tag_arxiv_id,           \* the local arxiv_id
    arxiv_tag_seen,         \* history: some processed label lowercased to "arxiv"
    arxiv_tag_value,        \* history: the value of the latest such tag
    \* ---- _extract_models_or_collections_items (lines 358-373)
    item_n,                 \* number of a tags processed so far
    item_result,            \* the dict result
    item_last,              \* history: the a tag processed last
    \* ---- _crawl_related_models_or_collections (lines 326-356)
    section,                \* the parsed section: its tags in document order
    bucket_i,               \* the loop index i over h2_tags
    bucket_result,          \* the dict result
    related_pc,             \* "try", "except", "return"
    related_failed,         \* history: the try block raised
    related_models_collections, \* the record's field written at line 356
    \* ---- crawl_dataset_links (lines 80-122)
    sort_method,            \* self.sort_method
    crawl_targets,          \* the organization links read: index/target pairs
    target_i,               \* position of the loop over crawl_targets
    organization_datasets_links,  \* ordered dict index -> list of links
    saved_files,            \* what has been dumped to the links file, in order
    links_pc,               \* "loop", "done"
    org_log,                \* history: what happened to each organization
    \* ---- crawl_dataset_info, _get_all_link_data (lines 164-246)
    all_dataset_links,      \* the flattened links of the links file
    link_i,                 \* position of the loop over all_dataset_links
    dataset_details,        \* dict organization -> dataset name -> record
    exception_links,        \* list of the links that failed
    arxiv_id,               \* the local arxiv_id
    info_pc,                \* "login", "get", "gate", "keys", "extract",
                            \* "paper", "store", "done", "aborted"
    page_gate,              \* the gate form of the page loaded last
    page_content,           \* what the page loaded last shows to the extraction
    driver_log,             \* history: what the driver did for the current link
    navigated,              \* history: the dataset links given to driver.get
    outcomes                \* history: per link attempted, whether it got a record

tagVars == <<tag_n, dataset_tags_info_map, tag_arxiv_id, arxiv_tag_seen, arxiv_tag_value>>
itemVars == <<item_n, item_result, item_last>>
bucketVars == <<section, bucket_i, bucket_result, related_pc, related_failed,
               related_models_collections>>

linkVars == <<sort_method, crawl_targets, target_i, organization_datasets_links,
              saved_files, links_pc, org_log>>

infoVars == <<all_dataset_links, link_i, dataset_details, exception_links, arxiv_id,
              info_pc, page_gate, page_content, driver_log, navigated, outcomes>>

vars == <<tagVars, itemVars, bucketVars, linkVars, infoVars>>

-----------------------------------------------------------------------------
(* Bounds *)

MaxParts == 3
MaxTagDivs == 2
MaxItems == 2
MaxNodes == 4
MaxOrgs == 2
MaxCards == 2
MaxLinks == 2
MaxLabels == 1

-----------------------------------------------------------------------------
(* Python str operations on texts *)

EmptyMap == [k \in {} |-> k]

W_arxiv == <<"a", "r", "x", "i", "v">>
W_ArXiv == <<"A", "r", "X", "i", "v">>
W_Community == <<"C", "o", "m", "m", "u", "n", "i", "t", "y">>
W_Like == <<"L", "i", "k", "e">>
W_expand == <<"e", "x", "p", "a", "n", "d">>

IsSpace(c) == c \in {" ", "\n"}

\* str.lower() on one character (the letters the model's texts use)
LowerChar(c) ==
    CASE c = "A" -> "a"
      [] c = "X" -> "x"
      [] c = "C" -> "c"
      [] c = "L" -> "l"
      [] OTHER -> c

Lower(s) == [i \in 1..Len(s) |-> LowerChar(s[i])]

\* s.startswith(p)
StartsWith(s, p) == Len(p) <= Len(s) /\ SubSeq(s, 1, Len(p)) = p

\* s[n:]
Drop(s, n) == SubSeq(s, n + 1, Len(s))

\* s.replace(old, ''): every non-overlapping occurrence, left to right
RECURSIVE StrRemove(_, _)
StrRemove(s, old) ==
    IF old = <<>> \/ s = <<>> THEN s
    ELSE IF StartsWith(s, old) THEN StrRemove(Drop(s, Len(old)), old)
    ELSE <<Head(s)>> \o StrRemove(Tail(s), old)

\* .replace("'", '').replace('"', '')
StripQuotes(s) == StrRemove(StrRemove(s, <<"'">>), <<"\"">>)

\* s.split(c)[-1]: what follows the last c
RECURSIVE SplitLast(_, _)
SplitLast(s, c) ==
    IF \E i \in 1..Len(s) : s[i] = c
    THEN SplitLast(Tail(s), c)
    ELSE s

\* s.split(c)[0]: what precedes the first c
RECURSIVE SplitFirst(_, _)
SplitFirst(s, c) ==
    IF s = <<>> \/ Head(s) = c THEN <<>>
    ELSE <<Head(s)>> \o SplitFirst(Tail(s), c)

\* s.lstrip() / s.rstrip() / s.strip()
RECURSIVE LStrip(_)
LStrip(s) == IF s # <<>> /\ IsSpace(Head(s)) THEN LStrip(Tail(s)) ELSE s

RECURSIVE RStrip(_)
RStrip(s) ==
    IF s # <<>> /\ IsSpace(s[Len(s)]) THEN RStrip(SubSeq(s, 1, Len(s) - 1)) ELSE s

Strip(s) == RStrip(LStrip(s))

\* every run of whitespace becomes one space
RECURSIVE CollapseSpaces(_)
CollapseSpaces(s) ==
    IF s = <<>> THEN <<>>
    ELSE IF IsSpace(Head(s))
         THEN <<" ">> \o CollapseSpaces(LStrip(s))
         ELSE <<Head(s)>> \o CollapseSpaces(Tail(s))

\* utils.clean_text: whitespace-normalized text (runs collapsed, ends trimmed)
clean_text(s) == Strip(CollapseSpaces(s))

\* the concatenation of a sequence of texts
RECURSIVE Concat(_)
Concat(ps) == IF ps = <<>> THEN <<>> ELSE Head(ps) \o Concat(Tail(ps))

\* all sequences over S of length at most n
SeqsUpTo(S, n) == UNION {[1..k -> S] : k \in 0..n}

\* all texts made of at most MaxParts parts
TextsOf(parts) == {Concat(ps) : ps \in SeqsUpTo(parts, MaxParts)}

-----------------------------------------------------------------------------
(* The tag loop of _extract_related_data *)

\* a tag div: the text of its span and the text of the whole div
TagLabels == {W_arxiv, W_ArXiv \o <<":">>, <<"1", ":">>}
TagParts == {<<":">>, <<" ">>, <<"\n">>, <<"'">>, <<"1">>, <<"2">>}
TagDivs == {[span |-> l, text |-> l \o r] : l \in TagLabels, r \in TextsOf(TagParts)}

\* line 269
TagKey(div) == StripQuotes(StrRemove(div.span, <<":">>))

\* line 270
TagValue(div) == StripQuotes(clean_text(SplitLast(StrRemove(div.text, TagKey(div)), ":")))

\* lines 273-275, mutated: the last identifier is kept
ArxivIdOf_last(value) == SplitLast(clean_text(SplitLast(value, ":")), " ")

\* lines 273-275
ArxivIdOf(value) == SplitFirst(clean_text(SplitLast(value, ":")), " ")

\* d[k] = v
DictSet(d, k, v) == [x \in DOMAIN d \cup {k} |-> IF x = k THEN v ELSE d[x]]

\* lines 264-267
TagInit ==
    /\ tag_n = 0
    /\ dataset_tags_info_map = EmptyMap
    /\ tag_arxiv_id = <<>>
    /\ arxiv_tag_seen = FALSE
    /\ arxiv_tag_value = <<>>

\* lines 269-275: what one iteration of the loop reads off a tag div
TagRead(div) ==
    LET key == TagKey(div)
        value == TagValue(div)
    IN [key |-> key, value |-> value, isArxiv |-> (Lower(key) = W_arxiv),
        arxiv_id |-> ArxivIdOf(value)]

\* the readings of all the tag divs of the model
TagReads == {TagRead(div) : div \in TagDivs}

\* lines 268-275: one iteration of the loop over the tag divs
TagStep ==
    /\ tag_n < MaxTagDivs
    /\ \E r \in TagReads :
        /\ dataset_tags_info_map' = DictSet(dataset_tags_info_map, r.key, r.value)
        /\ tag_arxiv_id' = IF r.isArxiv THEN r.arxiv_id ELSE tag_arxiv_id
        /\ arxiv_tag_seen' = (arxiv_tag_seen \/ r.isArxiv)
        /\ arxiv_tag_value' = IF r.isArxiv THEN r.value ELSE arxiv_tag_value
    /\ tag_n' = tag_n + 1
    /\ UNCHANGED <<itemVars, bucketVars, linkVars, infoVars>>

-----------------------------------------------------------------------------
(* _extract_models_or_collections_items *)

\* an a tag of the parsed section: whether it has a header element and that
\* element's text, how deep its first div nests divs (0: no div, 1: a div,
\* 2: a div within the div), the text of that inner div, its href, its text
ATag(hasHeader, headerText, divs, inner, href, text) ==
    [hasHeader |-> hasHeader, headerText |-> headerText, divs |-> divs,
     inner |-> inner, href |-> href, text |-> text]

NoTag == ATag(FALSE, <<>>, 0, <<>>, <<>>, <<>>)

HeaderTexts == {<<"m">>, <<" ", "m", "\n">>, W_expand}
ATexts == {<<"t">>, <<"'", "t", " ", "\"">>}
ATags ==
    {ATag(hh, ht, d, inn, hr, tx) :
        hh \in BOOLEAN, ht \in HeaderTexts, d \in 0..2,
        inn \in {<<"n">>, <<"n", " ", " ", "n">>},
        hr \in {<<"/", "1">>, <<"/", "2">>}, tx \in ATexts}

\* line 367
ItemHeader(a) == IF a.hasHeader THEN clean_text(a.headerText) ELSE W_expand

\* line 369, mutated: the header is not looked at
ItemIsLink_anyHeader(a) == a.divs >= 1 /\ a.divs >= 2

\* line 369: a_tag.find('div') and a_tag.find('div').find('div'), header known
ItemIsLink(a) == ItemHeader(a) # W_expand /\ a.divs >= 1 /\ a.divs >= 2

\* lines 368-373: the item detail of one a tag
ItemDetail(a) ==
    IF ItemIsLink(a)
    THEN [k \in {"href", "text"} |-> IF k = "href" THEN a.href ELSE clean_text(a.inner)]
    ELSE [k \in {"other"} |-> StripQuotes(clean_text(a.text))]

\* lines 366-373: result after the loop over elements
RECURSIVE _extract_models_or_collections_items(_, _, _)
_extract_models_or_collections_items(elements, result, sub_title) ==
    IF elements = <<>> THEN result
    ELSE LET a == Head(elements)
             r == DictSet(result, sub_title,
                          DictSet(result[sub_title], ItemHeader(a), ItemDetail(a)))
         IN _extract_models_or_collections_items(Tail(elements), r, sub_title)

ItemTitle == <<"M">>

ItemInit ==
    /\ item_n = 0
    /\ item_result = DictSet(EmptyMap, ItemTitle, EmptyMap)
    /\ item_last = NoTag

\* one a tag goes through the loop of lines 366-373
ItemStep ==
    /\ item_n < MaxItems
    /\ \E a \in ATags :
        /\ item_result' = _extract_models_or_collections_items(<<a>>, item_result, ItemTitle)
        /\ item_last' = a
    /\ item_n' = item_n + 1
    /\ UNCHANGED <<tagVars, bucketVars, linkVars, infoVars>>

-----------------------------------------------------------------------------
(* _crawl_related_models_or_collections *)

\* The parsed section is the sequence of its tags in document order; a tag is
\* an h2 (with its text), a div, or an a, and names its parent (0: the section).
H2Texts == {<<"M">>, <<"C">>, <<" ", "M">>}
NodeKinds ==
    {[tag |-> "h2", text |-> t] : t \in H2Texts}
        \cup {[tag |-> "div", text |-> <<>>], [tag |-> "a", text |-> <<>>]}

Node(kind, parent) == [tag |-> kind.tag, text |-> kind.text, parent |-> parent]

\* the ancestors of tag i (0, the section, among them), i itself included
RECURSIVE AncestorsOrSelf(_, _)
AncestorsOrSelf(dom, i) ==
    IF i = 0 THEN {0} ELSE {i} \cup AncestorsOrSelf(dom, dom[i].parent)

\* document order: the next tag hangs under the section or under a div that
\* is still open, that is the previous tag or one of its ancestors
OpenParents(dom) ==
    IF dom = <<>> THEN {0}
    ELSE {j \in AncestorsOrSelf(dom, Len(dom)) : j = 0 \/ dom[j].tag = "div"}

RECURSIVE Sections(_)
Sections(n) ==
    IF n = 0 THEN {<<>>}
    ELSE LET S == Sections(n - 1)
         IN S \cup UNION {{Append(d, Node(k, p)) :
                               k \in NodeKinds, p \in OpenParents(d)} :
                           d \in {x \in S : Len(x) = n - 1}}

\* every section of at most MaxNodes tags
AllSections == Sections(MaxNodes)

\* the indices in S, ascending
RECURSIVE Ascending(_)
Ascending(S) ==
    IF S = {} THEN <<>>
    ELSE LET m == CHOOSE x \in S : \A y \in S : x <= y
         IN <<m>> \o Ascending(S \ {m})

\* line 333: soup.find_all('h2'), every h2 of the section in document order
H2Tags(dom) == Ascending({i \in 1..Len(dom) : dom[i].tag = "h2"})

\* lines 342, 350: current_h2.find_next_siblings()
NextSiblings(dom, h) ==
    Ascending({j \in 1..Len(dom) : j > h /\ dom[j].parent = dom[h].parent})

\* line 344: sibling == next_h2, the parser's equality of tags (same name,
\* attributes and contents)
TagEq(dom, i, j) == dom[i].tag = dom[j].tag /\ dom[i].text = dom[j].text

\* lines 343-345: the siblings before the first one equal to next_h2
RECURSIVE UpTo(_, _, _)
UpTo(dom, sibs, next_h2) ==
    IF sibs = <<>> \/ TagEq(dom, Head(sibs), next_h2) THEN <<>>
    ELSE <<Head(sibs)>> \o UpTo(dom, Tail(sibs), next_h2)

\* the a tag a section's tag i stands for: its header names it
RECURSIVE ItemName(_)
ItemName(i) == IF i = 0 THEN <<>> ELSE <<"x">> \o ItemName(i - 1)

ATagOf(i) == ATag(TRUE, ItemName(i), 2, <<"n">>, <<"/", "1">>, <<"t">>)

\* lines 346, 352: sibling.find_all('a', href=True), the a tags below sibling
FindAllA(dom, sibling) ==
    Ascending({j \in 1..Len(dom) :
        /\ dom[j].tag = "a"
        /\ j # sibling
        /\ sibling \in AncestorsOrSelf(dom, j)})

RECURSIVE ATagsOf(_)
ATagsOf(idx) == IF idx = <<>> THEN <<>> ELSE <<ATagOf(Head(idx))>> \o ATagsOf(Tail(idx))

\* lines 343-347, 351-353: the loop over the siblings of one bucket
RECURSIVE BucketItems(_, _, _, _)
BucketItems(dom, sibs, result, sub_title) ==
    IF sibs = <<>> THEN result
    ELSE BucketItems(dom, Tail(sibs),
             _extract_models_or_collections_items(
                 ATagsOf(FindAllA(dom, Head(sibs))), result, sub_title),
             sub_title)

\* lines 336-353: one iteration of the loop over h2_tags (i counts from 1)
BucketOf(dom, i, result) ==
    LET h2_tags == H2Tags(dom)
        current_h2 == h2_tags[i]
        sub_title == clean_text(dom[current_h2].text)
        contents == NextSiblings(dom, current_h2)
        sibs == IF i + 1 <= Len(h2_tags)
                THEN UpTo(dom, contents, h2_tags[i + 1])
                ELSE contents
    IN BucketItems(dom, sibs, DictSet(result, sub_title, EmptyMap), sub_title)

\* lines 326-333
BucketInit ==
    /\ section \in AllSections
    /\ bucket_i = 1
    /\ bucket_result = EmptyMap
    /\ related_pc = "try"
    /\ related_failed = FALSE
    /\ related_models_collections = EmptyMap

BucketStep ==
    /\ related_pc = "try"
    /\ bucket_i <= Len(H2Tags(section))
    /\ bucket_result' = BucketOf(section, bucket_i, bucket_result)
    /\ bucket_i' = bucket_i + 1
    /\ UNCHANGED <<section, related_pc, related_failed, related_models_collections>>
    /\ UNCHANGED <<tagVars, itemVars, linkVars, infoVars>>

\* lines 340-353: the siblings iteration i walks
BucketSiblings(dom, i) ==
    LET h2_tags == H2Tags(dom)
        contents == NextSiblings(dom, h2_tags[i])
    IN IF i + 1 <= Len(h2_tags) THEN UpTo(dom, contents, h2_tags[i + 1])
       ELSE contents

\* lines 336-353: what result holds when iteration i raises: nothing new
\* (line 337 raises), or the heading's entry with the items of the siblings
\* walked before the one that raises; result is changed in place
BucketPartials(dom, i, result) ==
    LET sub_title == clean_text(dom[H2Tags(dom)[i]].text)
        sibs == BucketSiblings(dom, i)
    IN {result} \cup
       {BucketItems(dom, SubSeq(sibs, 1, k),
                    DictSet(result, sub_title, EmptyMap), sub_title) :
            k \in {0} \cup 0..(Len(sibs) - 1)}

\* lines 328-333, 354-355: locating or parsing the section raises
SectionFails ==
    /\ related_pc = "try"
    /\ bucket_i = 1
    /\ related_pc' = "except"
    /\ related_failed' = TRUE
    /\ UNCHANGED <<section, bucket_i, bucket_result, related_models_collections>>
    /\ UNCHANGED <<tagVars, itemVars, linkVars, infoVars>>

\* lines 336-355: iteration bucket_i raises midway
BucketFails ==
    /\ related_pc = "try"
    /\ bucket_i <= Len(H2Tags(section))
    /\ bucket_result' \in BucketPartials(section, bucket_i, bucket_result)
    /\ related_pc' = "except"
    /\ related_failed' = TRUE
    /\ UNCHANGED <<section, bucket_i, related_models_collections>>
    /\ UNCHANGED <<tagVars, itemVars, linkVars, infoVars>>

\* line 356: after the loop or after the handler, result is stored
StoreRelated ==
    /\ \/ related_pc = "try" /\ bucket_i > Len(H2Tags(section))
       \/ related_pc = "except"
    /\ related_models_collections' = bucket_result
    /\ related_pc' = "return"
    /\ UNCHANGED <<section, bucket_i, bucket_result, related_failed>>
    /\ UNCHANGED <<tagVars, itemVars, linkVars, infoVars>>

-----------------------------------------------------------------------------
(* crawl_dataset_links *)

None == "<None>"

\* lines 132-140
sort_map ==
    [k \in {"downloads", "updated", "created", "alphabetical", "likes",
            "rowsMost", "rowsLeast"} |->
        CASE k = "updated" -> "modified"
          [] k = "rowsMost" -> "most_rows"
          [] k = "rowsLeast" -> "least_rows"
          [] OTHER -> k]

SortMethods == DOMAIN sort_map \cup {"newest"}

\* the name of the i-th organization, an organization's page, the link of
\* the j-th dataset of the i-th organization
RECURSIVE Ticks(_)
Ticks(i) == IF i = 0 THEN <<>> ELSE <<"i">> \o Ticks(i - 1)

OrgIndex(i) == <<"o">> \o Ticks(i)
OrgUrl == "https://huggingface.co/org"
DatasetLink(i, j) == <<"hf", "datasets", OrgIndex(i), <<"d">> \o Ticks(j)>>

\* lines 129-145: the listing URL, or that ValueError is raised
_get_related_links(current_link) ==
    IF current_link = None THEN [raised |-> TRUE, url |-> <<>>]
    ELSE IF sort_method \notin DOMAIN sort_map THEN [raised |-> TRUE, url |-> <<>>]
    ELSE [raised |-> FALSE,
          url |-> <<current_link, "?sort_datasets=", sort_map[sort_method], "#datasets">>]

\* an ordered dict: has key, value of key
OHas(d, k) == \E i \in 1..Len(d) : d[i].key = k
OGet(d, k) == d[CHOOSE i \in 1..Len(d) : d[i].key = k].val

\* lines 113-115: organization_datasets_links[index].append(dataset_link)
OAppend(d, k, v) ==
    IF OHas(d, k)
    THEN [i \in 1..Len(d) |-> IF d[i].key = k
                               THEN [key |-> k, val |-> Append(d[i].val, v)]
                               ELSE d[i]]
    ELSE Append(d, [key |-> k, val |-> <<v>>])

\* lines 110-116: the loop over the first n articles, hrefs in page order
RECURSIVE AppendLinks(_, _, _, _)
AppendLinks(d, index, hrefs, n) ==
    IF n = 0 THEN d
    ELSE OAppend(AppendLinks(d, index, hrefs, n - 1), index, hrefs[n])

\* the dataset cards of the page of organization i when it lists n of them
Cards(i, n) == [j \in 1..n |-> DatasetLink(i, j)]

LinksInit ==
    /\ sort_method \in SortMethods
    /\ \E n \in 0..MaxOrgs :
         crawl_targets \in
            {[i \in 1..n |-> [index |-> OrgIndex(i), target |-> t[i]]] :
                t \in [1..n -> {None, "", OrgUrl}]}
    /\ target_i = 1
    /\ organization_datasets_links = <<>>
    /\ saved_files = <<>>
    /\ links_pc = "loop"
    /\ org_log = <<>>

Logged(outcome, hrefs) ==
    org_log' = Append(org_log, [index |-> crawl_targets[target_i].index,
                                outcome |-> outcome, hrefs |-> hrefs])

\* lines 117-118, mutated: the handler is outside the loop
AfterOrgError_break == Len(crawl_targets) + 1

\* lines 117-118: the error is logged and the loop goes on
AfterOrgError == target_i + 1

\* lines 94-95: an organization without a link is passed over
SkipOrg ==
    /\ links_pc = "loop" /\ target_i <= Len(crawl_targets)
    /\ crawl_targets[target_i].target \in {None, ""}
    /\ target_i' = target_i + 1
    /\ Logged("skipped", <<>>)
    /\ UNCHANGED <<sort_method, crawl_targets, organization_datasets_links,
                   saved_files, links_pc>>
    /\ UNCHANGED <<tagVars, itemVars, bucketVars, infoVars>>

\* lines 97-98, 117-118: building the URL or loading the page raises
OrgFails ==
    /\ links_pc = "loop" /\ target_i <= Len(crawl_targets)
    /\ crawl_targets[target_i].target \notin {None, ""}
    /\ \E getRaises \in BOOLEAN :
         _get_related_links(crawl_targets[target_i].target).raised \/ getRaises
    /\ target_i' = AfterOrgError
    /\ Logged("raised", <<>>)
    /\ UNCHANGED <<sort_method, crawl_targets, organization_datasets_links,
                   saved_files, links_pc>>
    /\ UNCHANGED <<tagVars, itemVars, bucketVars, infoVars>>

\* lines 97-116: the page loads and lists n cards; the expand button is
\* clicked when there is one (lines 102-105); every card gives its link
OrgListed ==
    /\ links_pc = "loop" /\ target_i <= Len(crawl_targets)
    /\ crawl_targets[target_i].target \notin {None, ""}
    /\ ~_get_related_links(crawl_targets[target_i].target).raised
    /\ \E n \in 0..MaxCards :
        /\ organization_datasets_links' =
              AppendLinks(organization_datasets_links,
                          crawl_targets[target_i].index, Cards(target_i, n), n)
        /\ Logged("ok", Cards(target_i, n))
    /\ target_i' = target_i + 1
    /\ UNCHANGED <<sort_method, crawl_targets, saved_files, links_pc>>
    /\ UNCHANGED <<tagVars, itemVars, bucketVars, infoVars>>

\* lines 110-118: card number k of n has no anchor; the links of the cards
\* before it are already in the dict when the handler logs the error
OrgCardFails ==
    /\ links_pc = "loop" /\ target_i <= Len(crawl_targets)
    /\ crawl_targets[target_i].target \notin {None, ""}
    /\ ~_get_related_links(crawl_targets[target_i].target).raised
    /\ \E n \in 1..MaxCards, k \in 1..MaxCards :
        /\ k <= n
        /\ organization_datasets_links' =
              AppendLinks(organization_datasets_links,
                          crawl_targets[target_i].index, Cards(target_i, n), k - 1)
        /\ Logged("raised", Cards(target_i, n))
    /\ target_i' = AfterOrgError
    /\ UNCHANGED <<sort_method, crawl_targets, saved_files, links_pc>>
    /\ UNCHANGED <<tagVars, itemVars, bucketVars, infoVars>>

\* lines 120-122: json.dump of the dict once the loop has ended
SaveLinks ==
    /\ links_pc = "loop" /\ target_i > Len(crawl_targets)
    /\ saved_files' = Append(saved_files, organization_datasets_links)
    /\ links_pc' = "done"
    /\ UNCHANGED <<sort_method, crawl_targets, target_i,
                   organization_datasets_links, org_log>>
    /\ UNCHANGED <<tagVars, itemVars, bucketVars, infoVars>>

-----------------------------------------------------------------------------
(* _extract_related_data *)

\* dataset_details[organization][dataset_name][field] = v
SetField(details, organization, dataset_name, field, v) ==
    [details EXCEPT ![organization][dataset_name] = DictSet(@, field, v)]

\* lines 265-275: the loop over the tag divs, giving the map and the arxiv_id
RECURSIVE TagLoop(_, _, _)
TagLoop(divs, map, id) ==
    IF divs = <<>> THEN [map |-> map, arxiv_id |-> id]
    ELSE LET r == TagRead(Head(divs))
         IN TagLoop(Tail(divs), DictSet(map, r.key, r.value),
                    IF r.isArxiv THEN r.arxiv_id ELSE id)

\* lines 279-288: data_info from the a tags of the panel, each the list of
\* the texts of its divs
RECURSIVE DataInfo(_)
DataInfo(a_tags) ==
    IF a_tags = <<>> THEN EmptyMap
    ELSE LET divs == a_tags[Len(a_tags)]
             rest == DataInfo(SubSeq(a_tags, 1, Len(a_tags) - 1))
         IN IF Len(divs) = 2 THEN DictSet(rest, Strip(divs[1]), Strip(divs[2])) ELSE rest

\* lines 307-311: the counter without its word, "0" when nothing is left
CounterValue(text, word) ==
    IF clean_text(StrRemove(text, word)) # <<>>
    THEN clean_text(StrRemove(text, word))
    ELSE <<"0">>

\* lines 335-353: the loop over h2_tags from index i on
RECURSIVE RelatedLoop(_, _, _)
RelatedLoop(dom, i, result) ==
    IF i > Len(H2Tags(dom)) THEN result
    ELSE RelatedLoop(dom, i + 1, BucketOf(dom, i, result))

\* lines 326-356: locating the section raises (result stays empty) or the
\* section is parsed and walked; result is stored either way
_crawl_related_models_or_collections(details, dataset_name, organization, c) ==
    SetField(details, organization, dataset_name, "related_models_collections",
             IF c.related_fails THEN EmptyMap ELSE RelatedLoop(c.section, 1, EmptyMap))

\* lines 277-294: the data-info panel; a failure is logged and nothing is written
AfterDataInfo(details, dataset_name, organization, c) ==
    IF c.data_info_fails THEN details
    ELSE SetField(details, organization, dataset_name, "dataset_info",
                  DataInfo(c.data_info))

\* lines 256-315 on a page showing c: whether it raises, dataset_details as it
\* leaves it, and the arxiv_id returned
_extract_related_data(details, dataset_name, organization, c) ==
    IF c.fail \in {"counters", "tags"}
    THEN [raised |-> TRUE, details |-> details, arxiv_id |-> <<>>]
    ELSE
    LET tags == TagLoop(c.tag_divs, EmptyMap, <<>>)
        d1 == AfterDataInfo(details, dataset_name, organization, c)
        d2 == IF c.panel_present
              THEN SetField(d1, organization, dataset_name, "dataset_panel_info",
                            StripQuotes(c.panel_text))
              ELSE d1
        d3 == _crawl_related_models_or_collections(d2, dataset_name, organization, c)
        d4 == SetField(d3, organization, dataset_name, "dataset_tags_info", tags.map)
        d5 == SetField(d4, organization, dataset_name, "download_count_last_month",
                       c.download)
        d6 == SetField(d5, organization, dataset_name, "community",
                       CounterValue(c.community, W_Community))
        d7 == SetField(d6, organization, dataset_name, "like",
                       CounterValue(c.like, W_Like))
    IN IF c.fail = "panel"
       THEN [raised |-> TRUE, details |-> d1, arxiv_id |-> <<>>]
       ELSE [raised |-> FALSE, details |-> d7, arxiv_id |-> tags.arxiv_id]

\* what the pages of the model show
LicenseDiv == [span |-> <<"L", ":">>, text |-> <<"L", ":", " ", "m">>]
ArxivDiv == [span |-> W_ArXiv \o <<":">>,
             text |-> W_ArXiv \o <<":", "\n", "1", " ", "2">>]
PageTags == {<<LicenseDiv>>, <<LicenseDiv, ArxivDiv>>}
PageCounters ==
    {[download |-> <<"9">>, community |-> W_Community, like |-> <<"3", "\n">> \o W_Like],
     [download |-> <<>>, community |-> <<"7", " ">> \o W_Community, like |-> W_Like]}
PageSection ==
    <<[tag |-> "h2", text |-> <<"M">>, parent |-> 0],
      [tag |-> "div", text |-> <<>>, parent |-> 0],
      [tag |-> "a", text |-> <<>>, parent |-> 2]>>
PageSoft ==
    {[data_info_fails |-> FALSE, panel_present |-> TRUE, related_fails |-> FALSE],
     [data_info_fails |-> TRUE, panel_present |-> TRUE, related_fails |-> FALSE],
     [data_info_fails |-> FALSE, panel_present |-> FALSE, related_fails |-> TRUE]}

Content(tags, counters, soft, fail) ==
    [tag_divs |-> tags, download |-> counters.download,
     community |-> counters.community, like |-> counters.like,
     data_info_fails |-> soft.data_info_fails,
     data_info |-> << <<<<"r", " ">>, <<"5">>>>, <<<<"x">>>> >>,
     panel_present |-> soft.panel_present, panel_text |-> <<"'", "p">>,
     related_fails |-> soft.related_fails, section |-> PageSection,
     fail |-> fail]

PageContents(fails) ==
    {Content(t, c, f, x) : t \in PageTags, c \in PageCounters, f \in PageSoft, x \in fails}

NoContent == Content(<<>>, [download |-> <<>>, community |-> <<>>, like |-> <<>>],
                     [data_info_fails |-> FALSE, panel_present |-> FALSE,
                      related_fails |-> FALSE], "unread")

-----------------------------------------------------------------------------
(* crawl_dataset_info, _get_all_link_data *)

LinkSet == {DatasetLink(1, 1), DatasetLink(1, 2), DatasetLink(2, 1)}

\* the links files: at most MaxOrgs organizations of at most MaxCards links,
\* at most MaxLinks links in all
RECURSIVE Flatten(_)
Flatten(lists) == IF lists = <<>> THEN <<>> ELSE Head(lists) \o Flatten(Tail(lists))

LinkFiles ==
    {m \in SeqsUpTo(UNION {[1..k -> LinkSet] : k \in 0..MaxCards}, MaxOrgs) :
        Len(Flatten(m)) <= MaxLinks}

\* lines 216-217
OrganizationOf(link) == link[Len(link) - 1]
DatasetNameOf(link) == link[Len(link)]

CurrentLink == all_dataset_links[link_i]

\* the gate forms a page may show
NoGate == [form |-> FALSE, labels |-> 0]
Gates == {NoGate} \cup {[form |-> TRUE, labels |-> n] : n \in 0..MaxLabels}

Did(op, arg) == [op |-> op, arg |-> arg]

\* lines 210-213, mutated: the button is not clicked
FillForm_noClick(labels) == [i \in 1..labels |-> Did("send_keys", "asd")]

\* lines 210-213: every label's input gets 'asd', then the button is clicked
FillForm(labels) ==
    [i \in 1..labels |-> Did("send_keys", "asd")] \o <<Did("click", "")>>

\* lines 218-221
WithEntry(details, organization, dataset_name) ==
    LET d1 == IF organization \in DOMAIN details THEN details
              ELSE DictSet(details, organization, EmptyMap)
    IN IF dataset_name \in DOMAIN d1[organization] THEN d1
       ELSE DictSet(d1, organization, DictSet(d1[organization], dataset_name, EmptyMap))

ScreenshotPath(dataset_name) == <<"screenshots/">> \o dataset_name \o <<".png">>
PaperPath(dataset_name) == <<"screenshots/">> \o dataset_name \o <<"_pdf.png">>

\* lines 237-242: the record is set anew, with the link and the two paths
StoredRecord(link, id) ==
    [k \in {"link", "paper_screenshot_save_path", "dataset_screenshot_save_path"} |->
        CASE k = "link" -> link
          [] k = "paper_screenshot_save_path" ->
                IF id # <<>> THEN PaperPath(DatasetNameOf(link)) ELSE <<>>
          [] OTHER -> ScreenshotPath(DatasetNameOf(link))]

\* where the loop stands at position i
LoopPc(i) == IF i <= Len(all_dataset_links) THEN "get" ELSE "done"

\* lines 243-245, mutated: the handler is outside the loop
AfterLinkError_break == Len(all_dataset_links) + 1

\* lines 243-245: the loop goes on with the next link
AfterLinkError == link_i + 1

\* lines 243-245: the handler of the loop body
Handler ==
    /\ exception_links' = Append(exception_links, CurrentLink)
    /\ outcomes' = Append(outcomes, FALSE)
    /\ link_i' = AfterLinkError
    /\ info_pc' = LoopPc(AfterLinkError)

\* lines 170-176, 189-190: the links file is read and flattened
InfoInit ==
    /\ all_dataset_links \in {Flatten(m) : m \in LinkFiles}
    /\ link_i = 1
    /\ dataset_details = EmptyMap
    /\ exception_links = <<>>
    /\ arxiv_id = <<>>
    /\ info_pc = "login"
    /\ page_gate = NoGate
    /\ page_content = NoContent
    /\ driver_log = <<>>
    /\ navigated = <<>>
    /\ outcomes = <<>>

notInfoVars == <<tagVars, itemVars, bucketVars, linkVars>>

\* lines 193-199: the login page, the cookies, the refresh
Login ==
    /\ info_pc = "login"
    /\ info_pc' = LoopPc(1)
    /\ UNCHANGED <<all_dataset_links, link_i, dataset_details, exception_links,
                   arxiv_id, page_gate, page_content, driver_log, navigated, outcomes>>
    /\ UNCHANGED notInfoVars

\* lines 193-199 raise (no cookie file, no browser): nothing catches it
LoginFails ==
    /\ info_pc = "login"
    /\ info_pc' = "aborted"
    /\ UNCHANGED <<all_dataset_links, link_i, dataset_details, exception_links,
                   arxiv_id, page_gate, page_content, driver_log, navigated, outcomes>>
    /\ UNCHANGED notInfoVars

\* line 204: the page of the link loads
GetLink ==
    /\ info_pc = "get"
    /\ navigated' = Append(navigated, CurrentLink)
    /\ driver_log' = <<Did("get", "")>>
    /\ page_gate' \in Gates
    /\ page_content' = NoContent
    /\ info_pc' = "gate"
    /\ UNCHANGED <<all_dataset_links, link_i, dataset_details, exception_links,
                   arxiv_id, outcomes>>
    /\ UNCHANGED notInfoVars

\* line 204 raises
GetLinkFails ==
    /\ info_pc = "get"
    /\ navigated' = Append(navigated, CurrentLink)
    /\ driver_log' = <<Did("get", "")>>
    /\ page_gate' = NoGate
    /\ page_content' = NoContent
    /\ Handler
    /\ UNCHANGED <<all_dataset_links, dataset_details, arxiv_id>>
    /\ UNCHANGED notInfoVars

\* lines 209-214: no form, or the form is filled and submitted
GatePassed ==
    /\ info_pc = "gate"
    /\ driver_log' = driver_log \o
            (IF page_gate.form THEN FillForm(page_gate.labels) ELSE <<>>)
    /\ info_pc' = "keys"
    /\ UNCHANGED <<all_dataset_links, link_i, dataset_details, exception_links,
                   arxiv_id, page_gate, page_content, navigated, outcomes>>
    /\ UNCHANGED notInfoVars

\* lines 209-213 raise after k of the form's steps: an input is missing or
\* the button is
GateFails ==
    /\ info_pc = "gate"
    /\ page_gate.form
    /\ \E k \in 0..MaxLabels :
        /\ k <= page_gate.labels
        /\ driver_log' = driver_log \o SubSeq(FillForm(page_gate.labels), 1, k)
    /\ Handler
    /\ UNCHANGED <<all_dataset_links, dataset_details, arxiv_id, page_gate,
                   page_content, navigated>>
    /\ UNCHANGED notInfoVars

\* lines 216-223: the entry of the link is made, the page is captured
ScreenshotTaken ==
    /\ info_pc = "keys"
    /\ dataset_details' = WithEntry(dataset_details, OrganizationOf(CurrentLink),
                                    DatasetNameOf(CurrentLink))
    /\ driver_log' = Append(driver_log, Did("screenshot", ""))
    /\ info_pc' = "extract"
    /\ UNCHANGED <<all_dataset_links, link_i, exception_links, arxiv_id, page_gate,
                   page_content, navigated, outcomes>>
    /\ UNCHANGED notInfoVars

\* lines 216-223: the entry of the link is made, save_screenshot raises
ScreenshotFails ==
    /\ info_pc = "keys"
    /\ dataset_details' = WithEntry(dataset_details, OrganizationOf(CurrentLink),
                                    DatasetNameOf(CurrentLink))
    /\ Handler
    /\ UNCHANGED <<all_dataset_links, arxiv_id, page_gate, page_content, driver_log,
                   navigated>>
    /\ UNCHANGED notInfoVars

\* line 225: _extract_related_data returns
ExtractReturns ==
    /\ info_pc = "extract"
    /\ \E c \in PageContents({"none"}) :
        LET r == _extract_related_data(dataset_details, DatasetNameOf(CurrentLink),
                                       OrganizationOf(CurrentLink), c)
        IN /\ dataset_details' = r.details
           /\ arxiv_id' = r.arxiv_id
           /\ page_content' = c
    /\ driver_log' = Append(driver_log, Did("extract", ""))
    /\ info_pc' = "paper"
    /\ UNCHANGED <<all_dataset_links, link_i, exception_links, page_gate, navigated,
                   outcomes>>
    /\ UNCHANGED notInfoVars

\* line 225: _extract_related_data raises (a counter, a tag span or the panel
\* lookup is not there)
ExtractFails ==
    /\ info_pc = "extract"
    /\ \E c \in PageContents({"counters", "tags", "panel"}) :
        LET r == _extract_related_data(dataset_details, DatasetNameOf(CurrentLink),
                                       OrganizationOf(CurrentLink), c)
        IN /\ dataset_details' = r.details
           /\ page_content' = c
    /\ Handler
    /\ UNCHANGED <<all_dataset_links, arxiv_id, page_gate, driver_log, navigated>>
    /\ UNCHANGED notInfoVars

\* lines 228-235: no arxiv_id, or the paper page loads and is captured
PaperPassed ==
    /\ info_pc = "paper"
    /\ driver_log' = driver_log \o
            (IF arxiv_id # <<>>
             THEN <<Did("get", "arxiv"), Did("screenshot", "arxiv")>>
             ELSE <<>>)
    /\ info_pc' = "store"
    /\ UNCHANGED <<all_dataset_links, link_i, dataset_details, exception_links,
                   arxiv_id, page_gate, page_content, navigated, outcomes>>
    /\ UNCHANGED notInfoVars

\* lines 228-235 raise
PaperFails ==
    /\ info_pc = "paper"
    /\ arxiv_id # <<>>
    /\ Handler
    /\ UNCHANGED <<all_dataset_links, dataset_details, arxiv_id, page_gate,
                   page_content, driver_log, navigated>>
    /\ UNCHANGED notInfoVars

\* lines 237-242
StoreRecord ==
    /\ info_pc = "store"
    /\ dataset_details' =
         [dataset_details EXCEPT
            ![OrganizationOf(CurrentLink)][DatasetNameOf(CurrentLink)] =
                StoredRecord(CurrentLink, arxiv_id)]
    /\ outcomes' = Append(outcomes, TRUE)
    /\ link_i' = link_i + 1
    /\ info_pc' = LoopPc(link_i + 1)
    /\ UNCHANGED <<all_dataset_links, exception_links, arxiv_id, page_gate,
                   page_content, driver_log, navigated>>
    /\ UNCHANGED notInfoVars

-----------------------------------------------------------------------------
(* The specifications *)

TagIdle == TagInit
ItemIdle == ItemInit
BucketIdle ==
    /\ section = <<>> /\ bucket_i = 1 /\ bucket_result = EmptyMap
    /\ related_pc = "return" /\ related_failed = FALSE
    /\ related_models_collections = EmptyMap

LinksIdle ==
    /\ sort_method = "downloads" /\ crawl_targets = <<>> /\ target_i = 1
    /\ organization_datasets_links = <<>> /\ saved_files = <<>>
    /\ links_pc = "loop" /\ org_log = <<>>

InfoIdle ==
    /\ all_dataset_links = <<>> /\ link_i = 1 /\ dataset_details = EmptyMap
    /\ exception_links = <<>> /\ arxiv_id = <<>> /\ info_pc = "login"
    /\ page_gate = NoGate /\ page_content = NoContent /\ driver_log = <<>>
    /\ navigated = <<>> /\ outcomes = <<>>

Init == InfoInit /\ TagIdle /\ ItemIdle /\ BucketIdle /\ LinksIdle

Next ==
    \/ Login
    \/ LoginFails
    \/ GetLink
    \/ GetLinkFails
    \/ GatePassed
    \/ GateFails
    \/ ScreenshotTaken
    \/ ScreenshotFails
    \/ ExtractReturns
    \/ ExtractFails
    \/ PaperPassed
    \/ PaperFails
    \/ StoreRecord

Spec == Init /\ [][Next]_vars

InitLinks == LinksInit /\ TagIdle /\ ItemIdle /\ BucketIdle /\ InfoIdle

NextLinks ==
    \/ SkipOrg
    \/ OrgFails
    \/ OrgListed
    \/ OrgCardFails
    \/ SaveLinks

SpecLinks == InitLinks /\ [][NextLinks]_vars

InitTags == TagInit /\ ItemIdle /\ BucketIdle /\ LinksIdle /\ InfoIdle

NextTags == TagStep

SpecTags == InitTags /\ [][NextTags]_vars

InitItems == ItemInit /\ TagIdle /\ BucketIdle /\ LinksIdle /\ InfoIdle

NextItems == ItemStep

SpecItems == InitItems /\ [][NextItems]_vars

InitBuckets == BucketInit /\ TagIdle /\ ItemIdle /\ LinksIdle /\ InfoIdle

NextBuckets == BucketStep \/ SectionFails \/ BucketFails \/ StoreRelated

SpecBuckets == InitBuckets /\ [][NextBuckets]_vars

-----------------------------------------------------------------------------
(* C1 *)

\* the loop stands between two links, or has ended
AtLoop == info_pc \in {"get", "done"}

HasRecord(link) ==
    /\ OrganizationOf(link) \in DOMAIN dataset_details
    /\ DatasetNameOf(link) \in DOMAIN dataset_details[OrganizationOf(link)]

RecordOf(link) == dataset_details[OrganizationOf(link)][DatasetNameOf(link)]

InExceptions(link) == \E i \in 1..Len(exception_links) : exception_links[i] = link

\* C1: when _get_all_link_data has run, every link has a record under its
\* (organization, dataset_name) or is in exception_links, and never both.
C1_ExactlyOne ==
    info_pc = "done" =>
        \A i \in 1..Len(all_dataset_links) :
            HasRecord(all_dataset_links[i]) # InExceptions(all_dataset_links[i])

-----------------------------------------------------------------------------
(* C2 *)

\* the link handled last got its record
LastStored == AtLoop /\ link_i > 1 /\ outcomes[link_i - 1]

LastLink == all_dataset_links[link_i - 1]

\* C2: a link whose data-info panel failed while every other step succeeded
\* has a complete record: dataset_info is the empty mapping and the link, the
\* tags, the counters, the related artifacts and both paths are there.
C2_CompleteRecord ==
    (LastStored /\ page_content.data_info_fails /\ ~page_content.related_fails) =>
        /\ {"link", "dataset_tags_info", "download_count_last_month", "community",
            "like", "related_models_collections", "paper_screenshot_save_path",
            "dataset_screenshot_save_path", "dataset_info"}
                \subseteq DOMAIN RecordOf(LastLink)
        /\ RecordOf(LastLink)["dataset_info"] = EmptyMap

-----------------------------------------------------------------------------
(* C3 *)

\* the links among the first Len(oks) of links whose outcome is a failure
RECURSIVE Failed(_, _)
Failed(links, oks) ==
    IF oks = <<>> THEN <<>>
    ELSE LET n == Len(oks)
             before == Failed(links, SubSeq(oks, 1, n - 1))
         IN IF oks[n] THEN before ELSE Append(before, links[n])

\* C3 as claimed: however the run ends, also when preparing the session
\* raised, every link was navigated to in order and the failed ones are in
\* exception_links in input order.
C3_AllAttemptedAsClaimed ==
    info_pc \in {"done", "aborted"} =>
        /\ navigated = all_dataset_links
        /\ exception_links = Failed(all_dataset_links, outcomes)

\* what is left to do: the links not yet handled, and the steps left for the
\* current one
Rank ==
    CASE info_pc \in {"done", "aborted"} -> 0
      [] info_pc = "login" -> 7 * (Len(all_dataset_links) + 2)
      [] OTHER ->
            7 * (Len(all_dataset_links) + 1 - link_i)
              + (CASE info_pc = "get" -> 6
                   [] info_pc = "gate" -> 5
                   [] info_pc = "keys" -> 4
                   [] info_pc = "extract" -> 3
                   [] info_pc = "paper" -> 2
                   [] OTHER -> 1)

AttemptedInOrder ==
    /\ navigated = SubSeq(all_dataset_links, 1, Len(navigated))
    /\ exception_links = Failed(all_dataset_links, outcomes)
    /\ info_pc = "done" =>
          /\ navigated = all_dataset_links
          /\ Len(outcomes) = Len(all_dataset_links)
    /\ info_pc = "aborted" =>
          /\ navigated = <<>>
          /\ exception_links = <<>>
          /\ dataset_details = EmptyMap
    /\ info_pc \notin {"login", "done", "aborted"} =>
          link_i <= Len(all_dataset_links)

\* C3 amended: once the session is prepared the loop never stops early: every
\* step brings the run closer to its end, and it ends having navigated to
\* every link in order, with the failed links in exception_links in input
\* order; a failure while preparing the session is not caught and ends the
\* run before any link is navigated to.
C3_AllAttempted == []AttemptedInOrder /\ [][Rank' < Rank]_vars

\* the first link failed and the loop went on to the second, which got a record
C3_Witness ==
    /\ info_pc = "done"
    /\ Len(all_dataset_links) >= 2
    /\ ~outcomes[1]
    /\ outcomes[2]
    /\ navigated = all_dataset_links

-----------------------------------------------------------------------------
(* C4 *)

\* C4: with a sort_method that sort_map does not know, no organization is
\* logged and passed over, and once an organization with a link has been
\* reached nothing is saved: the ValueError ends the run.
C4_UnknownSortAborts ==
    sort_method \notin DOMAIN sort_map =>
        /\ \A i \in 1..Len(org_log) : org_log[i].outcome # "raised"
        /\ (\E i \in 1..Len(org_log) : org_log[i].outcome # "skipped")
              => saved_files = <<>>

-----------------------------------------------------------------------------
(* C5 *)

\* C5: the links file is written once, when every organization has been
\* attempted, and it holds the links of every organization whose page was
\* read without an error, whatever happened to the organizations before it.
C5_SkipOnError ==
    /\ Len(saved_files) <= 1
    /\ saved_files # <<>> => links_pc = "done"
    /\ links_pc = "done" =>
          /\ Len(saved_files) = 1
          /\ Len(org_log) = Len(crawl_targets)
          /\ \A i \in 1..Len(org_log) :
                (org_log[i].outcome = "ok" /\ org_log[i].hrefs # <<>>) =>
                    /\ OHas(saved_files[1], org_log[i].index)
                    /\ OGet(saved_files[1], org_log[i].index) = org_log[i].hrefs

\* an organization raised and a later one has its links in the saved file
C5_Witness ==
    /\ links_pc = "done"
    /\ \E i, j \in 1..Len(org_log) :
          /\ i < j
          /\ org_log[i].outcome = "raised"
          /\ org_log[j].outcome = "ok"
          /\ org_log[j].hrefs # <<>>
          /\ OHas(saved_files[1], org_log[j].index)

-----------------------------------------------------------------------------
(* C6 *)

Logged_(op) == \E i \in 1..Len(driver_log) : driver_log[i].op = op

\* on a page with the gate form, the screenshot and the extraction come after
\* every input has been sent 'asd' and the button has been clicked
GateComesFirst ==
    (page_gate.form /\ (Logged_("screenshot") \/ Logged_("extract"))) =>
        /\ Len(driver_log) >= page_gate.labels + 2
        /\ \A j \in 1..page_gate.labels : driver_log[1 + j] = Did("send_keys", "asd")
        /\ driver_log[page_gate.labels + 2] = Did("click", "")
        /\ \A i \in 1..(page_gate.labels + 2) :
              driver_log[i].op \notin {"screenshot", "extract"}

\* a gate that is not passed sends the link to exception_links and leaves
\* dataset_details as it was
GateFailureStep ==
    (info_pc = "gate" /\ info_pc' # "gate" /\ info_pc' # "keys") =>
        /\ exception_links' = Append(exception_links, CurrentLink)
        /\ dataset_details' = dataset_details
        /\ link_i' = link_i + 1

\* C6: the gate form is filled and submitted before the screenshot and before
\* anything is extracted; when filling or submitting fails the link goes to
\* exception_links and no entry is made for it.
C6_GateFirst == []GateComesFirst /\ [][GateFailureStep]_vars

\* a page with a gate form of at least one input was captured and extracted
C6_Witness ==
    /\ page_gate.form
    /\ page_gate.labels >= 1
    /\ info_pc = "store"
    /\ Logged_("screenshot")

-----------------------------------------------------------------------------
(* C9 *)

\* the text of a counter, normalized, without its word
CounterText(text, word) == clean_text(StrRemove(text, word))

\* C9: the record of a link that got one holds, for community and for like,
\* "0" when the counter's normalized text without its word is empty and that
\* text otherwise.
C9_CounterDefault ==
    LastStored =>
        /\ "community" \in DOMAIN RecordOf(LastLink)
        /\ RecordOf(LastLink)["community"] =
              (IF CounterText(page_content.community, W_Community) = <<>>
               THEN <<"0">>
               ELSE CounterText(page_content.community, W_Community))
        /\ "like" \in DOMAIN RecordOf(LastLink)
        /\ RecordOf(LastLink)["like"] =
              (IF CounterText(page_content.like, W_Like) = <<>>
               THEN <<"0">>
               ELSE CounterText(page_content.like, W_Like))

-----------------------------------------------------------------------------
(* C7 *)

\* the detail stored for the a tag processed last
LastDetail == item_result[ItemTitle][ItemHeader(item_last)]

HasNestedBlock(a) == a.divs = 2

\* C7 as claimed: an a tag with a two-level-nested block yields {href, text},
\* one without yields {other}, one with no header element is stored under
\* "expand", whatever the combination of header and nested block.
C7_ShapeAsClaimed ==
    item_n > 0 =>
        /\ HasNestedBlock(item_last) => DOMAIN LastDetail = {"href", "text"}
        /\ ~HasNestedBlock(item_last) => DOMAIN LastDetail = {"other"}
        /\ ~item_last.hasHeader => W_expand \in DOMAIN item_result[ItemTitle]

\* the header element is there and its text is not the placeholder
HeaderResolved(a) == a.hasHeader /\ clean_text(a.headerText) # W_expand

\* C7 amended: an a tag with a two-level-nested block and a header element
\* whose text is not "expand" yields {href, text} (its href, the inner block's
\* text); every other a tag yields {other: its text, quotes stripped}; an a tag
\* with no header element is stored under "expand".
C7_ItemShape ==
    item_n > 0 =>
        /\ (HasNestedBlock(item_last) /\ HeaderResolved(item_last)) =>
              /\ DOMAIN LastDetail = {"href", "text"}
              /\ LastDetail["href"] = item_last.href
              /\ LastDetail["text"] = clean_text(item_last.inner)
        /\ ~(HasNestedBlock(item_last) /\ HeaderResolved(item_last)) =>
              /\ DOMAIN LastDetail = {"other"}
              /\ LastDetail["other"] = StripQuotes(clean_text(item_last.text))
        /\ ~item_last.hasHeader => W_expand \in DOMAIN item_result[ItemTitle]

\* an a tag with a nested block and no header element was stored as {other}
C7_Witness ==
    /\ item_n > 0
    /\ HasNestedBlock(item_last)
    /\ ~item_last.hasHeader
    /\ DOMAIN item_result[ItemTitle][W_expand] = {"other"}

-----------------------------------------------------------------------------
(* C8 *)

BucketDone == bucket_i > Len(H2Tags(section))

\* the title a heading's items are grouped under
TitleOf(h) == clean_text(section[h].text)

\* the a tags in the sibling content after heading number k, before the next
\* heading of the section (to the end of the section for the last heading)
ContentAfter(k) ==
    LET hs == H2Tags(section)
        h == hs[k]
    IN {x \in 1..Len(section) :
          /\ section[x].tag = "a"
          /\ x > h
          /\ k < Len(hs) => x < hs[k + 1]
          /\ \E s \in 1..Len(section) :
                /\ s > h
                /\ section[s].parent = section[h].parent
                /\ s # x
                /\ s \in AncestorsOrSelf(section, x)}

DistinctTitles ==
    \A j, k \in 1..Len(H2Tags(section)) :
        j # k => TitleOf(H2Tags(section)[j]) # TitleOf(H2Tags(section)[k])

\* C8: with the headings titled differently, each heading's title groups
\* exactly the items of the sibling content after it up to the next heading
\* (the end of the section for the last), and no item is under two headings.
C8_Bucketing ==
    (BucketDone /\ DistinctTitles) =>
        LET hs == H2Tags(section)
        IN /\ \A k \in 1..Len(hs) :
                 DOMAIN bucket_result[TitleOf(hs[k])]
                     = {ItemHeader(ATagOf(x)) : x \in ContentAfter(k)}
           /\ \A j, k \in 1..Len(hs) :
                 j # k =>
                   DOMAIN bucket_result[TitleOf(hs[j])]
                       \cap DOMAIN bucket_result[TitleOf(hs[k])] = {}

-----------------------------------------------------------------------------
(* C10 *)

\* the first whitespace-separated token of a text (none: the empty text)
RECURSIVE TokenHead(_)
TokenHead(s) ==
    IF s = <<>> \/ IsSpace(Head(s)) THEN <<>> ELSE <<Head(s)>> \o TokenHead(Tail(s))

FirstToken(s) == TokenHead(LStrip(s))

\* C10: once a tag labelled "arxiv" (in any case) has been read, the ArxivId is
\* the first whitespace-separated token of the value of the latest such tag;
\* as long as none has been read it is the empty string.
C10_ArxivFirstToken ==
    /\ arxiv_tag_seen => tag_arxiv_id = FirstToken(arxiv_tag_value)
    /\ ~arxiv_tag_seen => tag_arxiv_id = <<>>

\* a tag labelled "arxiv" whose value lists two identifiers has been read
C10_Witness ==
    /\ arxiv_tag_seen
    /\ \E i \in 1..Len(arxiv_tag_value) : arxiv_tag_value[i] = " "
    /\ tag_arxiv_id # <<>>
    /\ tag_arxiv_id # arxiv_tag_value

-----------------------------------------------------------------------------
(* C11 *)

\* the related-artifacts step has returned after a failure in its try block
ReturnedAfterFailure == related_pc = "return" /\ related_failed

\* C11: a failure inside the related-artifacts step, wherever it occurs,
\* leaves an empty mapping stored as related_models_collections.
C11_FailureStoresEmpty ==
    ReturnedAfterFailure => related_models_collections = EmptyMap

-----------------------------------------------------------------------------
(* C12 *)

\* C12: an organization whose processing raised has no key in the saved
\* links file, and every key of the file carries all the dataset links its
\* organization's page listed.
C12_FailedOrgSkippedWhole ==
    links_pc = "done" =>
        /\ \A i \in 1..Len(org_log) :
              org_log[i].outcome = "raised" =>
                 ~OHas(saved_files[1], org_log[i].index)
        /\ \A j \in 1..Len(saved_files[1]) :
              \E i \in 1..Len(org_log) :
                 /\ org_log[i].index = saved_files[1][j].key
                 /\ org_log[i].hrefs = saved_files[1][j].val

=============================================================================
